---- MODULE Spec2Model ----
(***************************************************************************)
(* A model of bot.py, the stock-news Telegram bot: the watchlist table,   *)
(* the quote and news adapters, the command and button handlers, the      *)
(* daily report job and main.                                              *)
(*                                                                         *)
(* Python strings the code transforms (tickers, callback data, names,     *)
(* titles) are sequences of one-character strings, so that upper(),       *)
(* strip(), startswith() and slicing are computed and not assumed.        *)
(* Python values of unknown type coming from upstream are tagged records. *)
(***************************************************************************)
EXTENDS Integers, Sequences, FiniteSets, TLC

\* ------------------------------------------------------------------------
\* Bounds of the model
\* ------------------------------------------------------------------------
\* the most argument tokens one command carries
MaxArgs == 2
\* the longest upstream news list of the news adapter's own specification
MaxNews == 7
\* the most entries one feed answers with in the aggregator's specification
MaxEntries == 4
\* the most firings of the daily trigger the scheduler skips during one run
MaxSkips == 1

\* ------------------------------------------------------------------------
\* Python strings
\* ------------------------------------------------------------------------
Min(a, b) == IF a < b THEN a ELSE b

\* str.upper(), one character
UpperChar(c) ==
    CASE c = "a" -> "A"
      [] c = "b" -> "B"
      [] c = "n" -> "N"
      [] c = "t" -> "T"
      [] OTHER -> c

\* str.upper()
Upper(s) == [i \in DOMAIN s |-> UpperChar(s[i])]

IsSpace(c) == c = " "

RECURSIVE LStrip(_)
LStrip(s) == IF s # <<>> /\ IsSpace(Head(s)) THEN LStrip(Tail(s)) ELSE s

RECURSIVE RStrip(_)
RStrip(s) ==
    IF s # <<>> /\ IsSpace(s[Len(s)]) THEN RStrip(SubSeq(s, 1, Len(s) - 1)) ELSE s

\* str.strip()
Strip(s) == RStrip(LStrip(s))

\* s[:n]
Take(s, n) == SubSeq(s, 1, Min(Len(s), n))

\* s[n:]
Drop(s, n) == SubSeq(s, n + 1, Len(s))

\* s.startswith(p)
StartsWith(s, p) == Len(s) >= Len(p) /\ SubSeq(s, 1, Len(p)) = p

\* code point order of the characters the model uses
CharCode(c) ==
    CASE c = " " -> 32
      [] c = "1" -> 49
      [] c = "2" -> 50
      [] c = "A" -> 65
      [] c = "B" -> 66
      [] c = "N" -> 78
      [] c = "T" -> 84
      [] c = "_" -> 95
      [] c = "a" -> 97
      [] c = "b" -> 98
      [] c = "n" -> 110
      [] c = "t" -> 116
      [] OTHER -> 127

\* s < t, the binary collation SQLite orders TEXT by
RECURSIVE StrLess(_, _)
StrLess(s, t) ==
    IF t = <<>> THEN FALSE
    ELSE IF s = <<>> THEN TRUE
    ELSE IF CharCode(Head(s)) # CharCode(Head(t))
         THEN CharCode(Head(s)) < CharCode(Head(t))
         ELSE StrLess(Tail(s), Tail(t))

\* ------------------------------------------------------------------------
\* Configuration
\* ------------------------------------------------------------------------
\* the chats that talk to the bot
Chats == {"u1", "u2"}

\* RSS_FEEDS, in declaration order
RSS_FEEDS == <<"Yahoo Finance", "Seeking Alpha", "MarketWatch", "Reuters">>

\* entries taken per feed
FeedSlice == 3
\* title[:100] of the headline lists
TitleBudget == 100
\* title[:120] of ticker_news_command
TickerTitleBudget == 120
\* the limits the callers pass
NewsCommandLimit == 8
DailyNewsLimit == 5
TickerNewsLimit == 6
ReportNewsLimit == 3
ButtonNewsLimit == 5

\* ------------------------------------------------------------------------
\* Python values of upstream payloads
\* ------------------------------------------------------------------------
\* a key the payload does not hold
Missing == [t |-> "missing", v |-> 0]
\* a key holding None
PyNone == [t |-> "none", v |-> 0]
\* a key holding a number
Num(n) == [t |-> "num", v |-> n]
\* a key holding a non-empty string where a number is expected
Str == [t |-> "str", v |-> 0]

\* dict.get(key)
DictGet(x) == IF x.t = "missing" THEN PyNone ELSE x
\* dict.get(key, default)
DictGetDefault(x, d) == IF x.t = "missing" THEN d ELSE x
\* bool(x)
Truthy(x) == (x.t = "num" /\ x.v # 0) \/ x.t = "str"
\* a or b
PyOr(a, b) == IF Truthy(a) THEN a ELSE b
\* a - b is defined for two numbers and raises TypeError otherwise
CanSub(a, b) == a.t = "num" /\ b.t = "num"

\* ------------------------------------------------------------------------
\* The watchlist table (init_db, get_watchlist, add_to_watchlist,
\* remove_from_watchlist)
\* ------------------------------------------------------------------------
\* CREATE TABLE watchlist (chat_id, ticker, name, added, PRIMARY KEY (chat_id, ticker))
init_db == {}

\* a key made of the ticker alone
KeyRowsAnyOwner(tab, chat, ticker) == {r \in tab : r.ticker = ticker}

\* the rows an INSERT of (chat, ticker) conflicts with under the primary key
KeyRows(tab, chat, ticker) == {r \in tab : r.chat_id = chat /\ r.ticker = ticker}

\* an insert that ignores the primary key
InsertNoKey(tab, row) == tab \cup {row}

\* INSERT OR REPLACE: the conflicting row is deleted, then the row is inserted
InsertOrReplace(tab, row) == (tab \ KeyRows(tab, row.chat_id, row.ticker)) \cup {row}

add_to_watchlist(tab, chat, ticker, name, now) ==
    InsertOrReplace(tab, [chat_id |-> chat, ticker |-> Upper(ticker),
                          name |-> name, added |-> now])

\* a delete that reports success whatever it matched
remove_always_true(tab, chat, ticker) ==
    [table |-> tab \ KeyRows(tab, chat, Upper(ticker)), result |-> TRUE]

\* DELETE ... WHERE chat_id=? AND ticker=?; returns rowcount > 0
remove_from_watchlist(tab, chat, ticker) ==
    LET hit == KeyRows(tab, chat, Upper(ticker))
    IN  [table |-> tab \ hit, result |-> Cardinality(hit) > 0]

\* the rows of S as a sequence ordered by ticker
RECURSIVE OrderByTicker(_)
OrderByTicker(S) ==
    IF S = {} THEN <<>>
    ELSE LET m == CHOOSE r \in S : \A q \in S : ~StrLess(q.ticker, r.ticker)
         IN  <<m>> \o OrderByTicker(S \ {m})

\* SELECT ticker, name, added FROM watchlist WHERE chat_id=? ORDER BY ticker
get_watchlist(tab, chat) ==
    LET rows == OrderByTicker({r \in tab : r.chat_id = chat})
    IN  [i \in DOMAIN rows |->
            [ticker |-> rows[i].ticker, name |-> rows[i].name, added |-> rows[i].added]]

\* ------------------------------------------------------------------------
\* get_stock_info
\* ------------------------------------------------------------------------
\* the outcomes of evaluating a function body: an exception, None, a quote
QExc == [tag |-> "exc", name |-> <<>>, ticker |-> <<>>, price |-> 0, change |-> 0,
         pct_num |-> 0, pct_den |-> 1]
QNone == [tag |-> "None", name |-> <<>>, ticker |-> <<>>, price |-> 0, change |-> 0,
          pct_num |-> 0, pct_den |-> 1]

\* the outcome of a body with change_pct = change / prev_close * 100 and no
\* test of prev_close: the division raises ZeroDivisionError on 0
get_stock_info_try_divides(ticker, p) ==
    IF p.kind = "raise" \/ p.kind = "notdict" THEN QExc
    ELSE IF ~Truthy(DictGet(p.regularMarketPrice)) /\ ~Truthy(DictGet(p.currentPrice))
         THEN QNone
    ELSE LET price == PyOr(DictGet(p.currentPrice),
                           DictGetDefault(p.regularMarketPrice, Num(0)))
             prev_close == DictGetDefault(p.previousClose, price)
         IN  IF ~CanSub(price, prev_close) \/ prev_close.v = 0 THEN QExc
             ELSE [tag |-> "quote",
                   name |-> IF p.shortName = <<>> THEN ticker ELSE p.shortName,
                   ticker |-> Upper(ticker),
                   price |-> price.v,
                   change |-> price.v - prev_close.v,
                   pct_num |-> (price.v - prev_close.v) * 100,
                   pct_den |-> prev_close.v]

\* the body of the try block. p is what yf.Ticker(ticker).info does: it raises,
\* it is no dict, or it is a dict with the keys the body reads. change_pct, a
\* float in the code, is kept as the exact fraction pct_num / pct_den.
get_stock_info_try(ticker, p) ==
    IF p.kind = "raise" \/ p.kind = "notdict" THEN QExc
    ELSE IF ~Truthy(DictGet(p.regularMarketPrice)) /\ ~Truthy(DictGet(p.currentPrice))
         THEN QNone
    ELSE LET price == PyOr(DictGet(p.currentPrice),
                           DictGetDefault(p.regularMarketPrice, Num(0)))
             prev_close == DictGetDefault(p.previousClose, price)
         IN  IF ~CanSub(price, prev_close) THEN QExc
             ELSE LET change == price.v - prev_close.v
                  IN  [tag |-> "quote",
                       name |-> IF p.shortName = <<>> THEN ticker ELSE p.shortName,
                       ticker |-> Upper(ticker),
                       price |-> price.v,
                       change |-> change,
                       pct_num |-> IF Truthy(prev_close) THEN change * 100 ELSE 0,
                       pct_den |-> IF Truthy(prev_close) THEN prev_close.v ELSE 1]

\* the function without its except clause
get_stock_info_no_except(ticker, p) == get_stock_info_try(ticker, p)

\* try: ... except Exception: return None
get_stock_info(ticker, p) ==
    LET r == get_stock_info_try(ticker, p)
    IN  IF r.tag = "exc" THEN QNone ELSE r

\* ------------------------------------------------------------------------
\* get_stock_news
\* ------------------------------------------------------------------------
\* title = content.get("title") or item.get("title", "")
ItemTitle(item) == IF item.ctitle # <<>> THEN item.ctitle ELSE item.ititle

\* a loop that puts each item kept in front of the ones kept before it
RECURSIVE NewsLoopNewestFirst(_, _)
NewsLoopNewestFirst(items, result) ==
    IF items = <<>> THEN [exc |-> FALSE, result |-> result]
    ELSE IF Head(items).malformed THEN [exc |-> TRUE, result |-> <<>>]
    ELSE LET title == ItemTitle(Head(items))
         IN  NewsLoopNewestFirst(Tail(items),
                                 IF title # <<>> THEN <<[title |-> title]>> \o result
                                                 ELSE result)

\* the loop over news[:limit]: the items kept so far, or an exception when an
\* item is no dict of the expected shape
RECURSIVE NewsLoop(_, _)
NewsLoop(items, result) ==
    IF items = <<>> THEN [exc |-> FALSE, result |-> result]
    ELSE IF Head(items).malformed THEN [exc |-> TRUE, result |-> <<>>]
    ELSE LET title == ItemTitle(Head(items))
         IN  NewsLoop(Tail(items),
                      IF title # <<>> THEN Append(result, [title |-> title])
                                      ELSE result)

\* a body that drops the untitled items first and cuts to the limit after
get_stock_news_filter_first(up, limit) ==
    IF up.kind = "raise" THEN [exc |-> TRUE, result |-> <<>>]
    ELSE LET news == IF up.kind = "none" THEN <<>> ELSE up.items
             all == NewsLoop(news, <<>>)
         IN  [exc |-> all.exc, result |-> Take(all.result, limit)]

\* the body of the try block. up is what yf.Ticker(ticker).news does: it
\* raises, it is None or empty, or it is a list of items
get_stock_news_try(up, limit) ==
    IF up.kind = "raise" THEN [exc |-> TRUE, result |-> <<>>]
    ELSE LET news == IF up.kind = "none" THEN <<>> ELSE up.items
         IN  NewsLoop(Take(news, limit), <<>>)

\* try: ... except Exception: return []
get_stock_news(up, limit) ==
    LET r == get_stock_news_try(up, limit)
    IN  IF r.exc THEN <<>> ELSE r.result

\* ------------------------------------------------------------------------
\* get_general_news
\* ------------------------------------------------------------------------
\* a feed loop without the slice
FeedItemsUnsliced(source, feed) ==
    [i \in DOMAIN feed.entries |-> [title |-> feed.entries[i].title, source |-> source]]

\* for entry in feed.entries[:3]: all_news.append({...})
FeedItems(source, feed) ==
    LET es == Take(feed.entries, FeedSlice)
    IN  [i \in DOMAIN es |-> [title |-> es[i].title, source |-> source]]

\* the loop over RSS_FEEDS from feed number i on; a feed whose parse raises is
\* logged and skipped
RECURSIVE FeedLoop(_, _, _)
FeedLoop(feeds, i, all_news) ==
    IF i > Len(RSS_FEEDS) THEN all_news
    ELSE FeedLoop(feeds, i + 1,
                  IF feeds[i].kind = "raise" THEN all_news
                  ELSE all_news \o FeedItems(RSS_FEEDS[i], feeds[i]))

get_general_news(feeds, limit) == Take(FeedLoop(feeds, 1, <<>>), limit)

\* ------------------------------------------------------------------------
\* The inputs of the bot's specification
\* ------------------------------------------------------------------------
\* the argument tokens of a command: context.args is the message text split
\* on whitespace, so a token holds no whitespace
Tokens == {<<"a">>, <<"A">>, <<"b">>}

RECURSIVE SeqsUpTo(_, _)
SeqsUpTo(S, n) ==
    IF n = 0 THEN {<<>>}
    ELSE LET shorter == SeqsUpTo(S, n - 1)
         IN  shorter \cup {Append(q, x) : q \in {r \in shorter : Len(r) = n - 1}, x \in S}

ArgLists == SeqsUpTo(Tokens, MaxArgs)

N1 == <<"N", "1">>
T1 == <<"t", "1">>
T2 == <<"t", "2">>

Info(kind, cur, reg, prev, short) ==
    [kind |-> kind, currentPrice |-> cur, regularMarketPrice |-> reg,
     previousClose |-> prev, shortName |-> short]

\* what the quote source does for one lookup: it raises, it answers without a
\* price, it answers with a current price, it answers with a regular-market
\* price only and no name
InfoRaise == Info("raise", Missing, Missing, Missing, <<>>)
InfoNoPrice == Info("dict", Missing, PyNone, Missing, N1)
InfoCurrent == Info("dict", Num(3), Num(2), Num(2), N1)
InfoRegular == Info("dict", Missing, Num(2), Missing, <<>>)
Infos == {InfoRaise, InfoNoPrice, InfoCurrent, InfoRegular}
\* the same without the answer that differs from a raise in the log line alone
InfosOfAdd == {InfoRaise, InfoCurrent, InfoRegular}

Item(malformed, ctitle, ititle) ==
    [malformed |-> malformed, ctitle |-> ctitle, ititle |-> ititle]

\* what the news source does for one lookup
NewsRaise == [kind |-> "raise", items |-> <<>>]
NewsNone == [kind |-> "none", items |-> <<>>]
NewsTitled == [kind |-> "list", items |-> <<Item(FALSE, T1, <<>>)>>]
NewsMixed == [kind |-> "list", items |-> <<Item(FALSE, <<>>, <<>>), Item(FALSE, <<>>, T2)>>]
NewsUps == {NewsRaise, NewsNone, NewsTitled, NewsMixed}

Entry(title) == [title |-> title]
Feed(kind, entries) == [kind |-> kind, entries |-> entries]
FeedDown == Feed("raise", <<>>)
FeedFull == Feed("ok", <<Entry(T1), Entry(T2), Entry(T1), Entry(T2)>>)
FeedUntitled == Feed("ok", <<Entry(<<>>)>>)
FeedEmpty == Feed("ok", <<>>)

\* what the four feeds do for one poll of all of them
FeedUps == {<<FeedDown, FeedDown, FeedDown, FeedDown>>,
            <<FeedEmpty, FeedDown, FeedEmpty, FeedEmpty>>,
            <<FeedFull, FeedFull, FeedFull, FeedFull>>,
            <<FeedDown, FeedUntitled, FeedFull, FeedDown>>}

\* ------------------------------------------------------------------------
\* Callback data and messages
\* ------------------------------------------------------------------------
HelpAdd == <<"h", "e", "l", "p", "_", "a", "d", "d">>
AddPrefix == <<"a", "d", "d", "_">>
RemovePrefix == <<"r", "e", "m", "o", "v", "e", "_">>
NewsPrefix == <<"n", "e", "w", "s", "_">>

\* the tickers quote_command makes of its argument
QuoteTickers == {Upper(t) : t \in Tokens}

\* the buttons the bot sends: help_add under an empty watchlist, and add_ or
\* remove_ and news_ under a quote
AllButtons ==
    {<<c, d>> : c \in Chats,
                d \in {HelpAdd} \cup {p \o t : p \in {AddPrefix, RemovePrefix, NewsPrefix},
                                              t \in QuoteTickers}}

\* one outbound message, or one other awaited step of a run ("answer", "sleep")
Msg(type, blocks, titles) == [type |-> type, blocks |-> blocks, titles |-> titles]
Plain(type) == Msg(type, <<>>, <<>>)

\* the awaited steps of a run that are no text sent to the chat
NonText == {"answer", "sleep"}

\* the titles of a numbered headline list, each cut to the budget
Headlines(news, budget) == [i \in DOMAIN news |-> Take(news[i].title, budget)]

\* one block of a quote summary
Block(symbol, quote, marker) == [symbol |-> symbol, quote |-> quote, marker |-> marker]

\* the blocks of watchlist_command: the quote, or the not-available line
WatchlistBlocks(wl, infos) ==
    [i \in DOMAIN wl |->
        IF infos[i].tag = "quote" THEN Block(infos[i].ticker, infos[i], FALSE)
        ELSE Block(wl[i].ticker, QNone, TRUE)]

\* the blocks of report_command: the quote, or the not-available line
ReportBlocks(wl, infos) ==
    [i \in DOMAIN wl |->
        IF infos[i].tag = "quote" THEN Block(wl[i].ticker, infos[i], FALSE)
        ELSE Block(wl[i].ticker, QNone, TRUE)]

\* the blocks of daily_report: a line for each quote that is present
RECURSIVE DailyBlocks(_, _)
DailyBlocks(wl, infos) ==
    IF wl = <<>> THEN <<>>
    ELSE (IF Head(infos).tag = "quote"
          THEN <<Block(Head(wl).ticker, Head(infos), FALSE)>> ELSE <<>>)
         \o DailyBlocks(Tail(wl), Tail(infos))

\* a quote loop that gives up at the first lookup without a quote
QuoteLoopStopsAtFailure(wl, ups) ==
    [i \in DOMAIN wl |->
        IF \E k \in 1 .. i : get_stock_info(wl[k].ticker, ups[k]).tag # "quote"
        THEN QNone ELSE get_stock_info(wl[i].ticker, ups[i])]

\* for item in watchlist: info = get_stock_info(item["ticker"])
QuoteLoop(wl, ups) == [i \in DOMAIN wl |-> get_stock_info(wl[i].ticker, ups[i])]

\* an exception left one of the lookups
Raised(infos) == \E i \in DOMAIN infos : infos[i].tag = "exc"

\* ------------------------------------------------------------------------
\* State
\* ------------------------------------------------------------------------
VARIABLES
    BOT_TOKEN,   \* the configured access token, or the placeholder
    CHAT_ID,     \* the configured recipient of the daily report, or ""
    app,         \* main: where it is, the handlers registered, the scheduler
    table,       \* the rows of the watchlist table
    buttons,     \* the inline buttons in the chats: <<chat, callback data>>
    h,           \* the update being handled, or the last one handled
    job,         \* the daily report job: its run in progress, or its last run
    call         \* one adapter call under observation: its inputs and result

vars == <<BOT_TOKEN, CHAT_ID, app, table, buttons, h, job, call>>

Placeholder == "DEIN_BOT_TOKEN_HIER"

\* datetime.now().strftime("%d.%m.%Y") of the day the process runs on
Today == <<"1">>

HandlerNames == {"start", "news", "watchlist", "add", "remove", "quote",
                 "ticker_news", "report", "schedule", "button"}

\* the tables an earlier run of the process can have left in stocks.db
StoredRows ==
    {[chat_id |-> c, ticker |-> t, name |-> N1, added |-> Today] :
        c \in Chats, t \in {<<"A">>, <<"B">>}}
StoredTables == SUBSET StoredRows

IdleH ==
    [kind |-> "none", chat |-> "", args |-> <<>>, data |-> <<>>, ticker |-> <<>>,
     pc |-> "idle", wl |-> <<>>, i |-> 0, ups |-> <<>>, sent |-> <<>>,
     results |-> <<>>, fetches |-> 0, call |-> "none", news |-> <<>>]

IdleJob ==
    [pc |-> "idle", outcome |-> "never", wl |-> <<>>, ups |-> <<>>, sent |-> <<>>,
     reads |-> 0, fetches |-> 0, instances |-> 0, skipped |-> 0]

NoCall ==
    [fn |-> "none", ticker |-> <<>>, info |-> InfoRaise, news |-> NewsNone,
     feeds |-> <<>>, limit |-> 0, done |-> FALSE, quote |-> QNone, items |-> <<>>]

Init ==
    /\ BOT_TOKEN \in {Placeholder, "token"}
    /\ CHAT_ID \in {"", "u1"}
    /\ app = [pc |-> "boot", handlers |-> {}, scheduler |-> "none"]
    /\ table \in StoredTables
    \* the messages of earlier runs of the process stay in the chats, and
    \* their buttons can be pressed
    /\ buttons = AllButtons
    /\ h = IdleH
    /\ job = IdleJob
    /\ call = NoCall

\* the start of a specification of one adapter call: the bot is not started
InitAdapter ==
    /\ BOT_TOKEN = "token"
    /\ CHAT_ID = ""
    /\ app = [pc |-> "boot", handlers |-> {}, scheduler |-> "none"]
    /\ table = init_db
    /\ buttons = {}
    /\ h = IdleH
    /\ job = IdleJob

\* ------------------------------------------------------------------------
\* main
\* ------------------------------------------------------------------------
\* a main without the token check
main_unchecked ==
    /\ app.pc = "boot"
    /\ app' = [pc |-> "polling", handlers |-> HandlerNames, scheduler |-> "started"]
    /\ UNCHANGED <<BOT_TOKEN, CHAT_ID, table, buttons, h, job, call>>

\* init_db(); the token check; the handlers; the scheduler; run_polling
main ==
    /\ app.pc = "boot"
    /\ app' = IF BOT_TOKEN = Placeholder
              THEN [app EXCEPT !.pc = "halted"]
              ELSE [pc |-> "polling", handlers |-> HandlerNames, scheduler |-> "started"]
    /\ UNCHANGED <<BOT_TOKEN, CHAT_ID, table, buttons, h, job, call>>

\* ------------------------------------------------------------------------
\* Handlers. Updates are handled one at a time; a handler runs without
\* interruption from one await to the next, and each action below is one such
\* stretch, ending with the awaited send, which succeeds or raises. h keeps
\* what the run did until the handler returns, and nothing else runs between
\* the end of the last stretch and the return.
\* ------------------------------------------------------------------------
\* a handler run that has ended: its last stretch is over and the handler
\* returns to the dispatcher without another await
Finished(r) == r.pc \in {"done", "send_failed", "exception"}

\* the job's run has ended and the job returns to the scheduler
JobEnded == job.pc = "end"

CanDispatch(kind) ==
    app.pc = "polling" /\ kind \in app.handlers /\ h.pc = "idle" /\ ~JobEnded

Begin(kind, chat, args) == [IdleH EXCEPT !.kind = kind, !.chat = chat, !.args = args,
                                         !.pc = "run"]

\* await reply_text(...): the message is sent and the run goes on at pc, or
\* the send raises and the run ends
Send(r, msg, pc, ok) ==
    IF ok THEN [r EXCEPT !.sent = Append(@, msg), !.pc = pc]
    ELSE [r EXCEPT !.pc = "send_failed"]

\* the upstream call that the run r makes first when it goes on from its
\* await: get_stock_info, get_stock_news and get_general_news are plain
\* functions, called without await
FirstCall(r) ==
    CASE r.pc = "news_1" -> "get_general_news"
      [] r.pc \in {"watchlist_1", "quote_1", "report_1"} -> "get_stock_info"
      [] r.pc = "ticker_news_1" -> "get_stock_news"
      [] r.pc = "report_news" /\ r.i <= Len(r.wl) -> "get_stock_news"
      [] r.pc = "button_1" /\ StartsWith(r.data, AddPrefix) -> "get_stock_info"
      [] r.pc = "button_1" /\ StartsWith(r.data, NewsPrefix) -> "get_stock_news"
      [] OTHER -> "none"

\* the loop's thread is inside an upstream call of the run r
InCall(r) == r.call # "none"

\* the loop's thread is not inside a handler: the job's coroutine and the
\* scheduler's timer can be run
LoopFree == ~Finished(h) /\ ~InCall(h)

\* the run goes on from pc, and is inside its first upstream call if that
\* stretch starts with one
At(kind, pc) ==
    /\ app.pc = "polling" /\ h.kind = kind /\ h.pc = pc /\ ~JobEnded
    /\ h.call = FirstCall(h)

\* the run enters its upstream call: the thread stays in it until the call
\* returns or raises
upstream_call ==
    /\ app.pc = "polling" /\ ~JobEnded
    /\ ~InCall(h) /\ FirstCall(h) # "none"
    /\ h' = [h EXCEPT !.call = FirstCall(h)]
    /\ UNCHANGED <<BOT_TOKEN, CHAT_ID, app, table, buttons, job, call>>

\* the handler returns; the dispatcher takes the next update
handler_return ==
    /\ Finished(h)
    /\ h' = IdleH
    /\ UNCHANGED <<BOT_TOKEN, CHAT_ID, app, table, buttons, job, call>>

start ==
    /\ CanDispatch("start")
    /\ \E c \in Chats, ok \in BOOLEAN :
          h' = Send(Begin("start", c, <<>>), Plain("start"), "done", ok)
    /\ UNCHANGED <<BOT_TOKEN, CHAT_ID, app, table, buttons, job, call>>

schedule_command ==
    /\ CanDispatch("schedule")
    /\ \E c \in Chats, ok \in BOOLEAN :
          h' = Send(Begin("schedule", c, <<>>), Plain("schedule"), "done", ok)
    /\ UNCHANGED <<BOT_TOKEN, CHAT_ID, app, table, buttons, job, call>>

news_command ==
    /\ CanDispatch("news")
    /\ \E c \in Chats, ok \in BOOLEAN :
          h' = Send(Begin("news", c, <<>>), Plain("loading"), "news_1", ok)
    /\ UNCHANGED <<BOT_TOKEN, CHAT_ID, app, table, buttons, job, call>>

\* news = get_general_news(limit=8) and the reply
news_command_1 ==
    /\ At("news", "news_1")
    /\ \E feeds \in FeedUps, ok \in BOOLEAN :
          LET news == get_general_news(feeds, NewsCommandLimit)
              r == [h EXCEPT !.fetches = @ + Len(RSS_FEEDS), !.call = "none"]
          IN  h' = IF news = <<>> THEN Send(r, Plain("no_news"), "done", ok)
                   ELSE Send(r, Msg("headlines", <<>>, Headlines(news, TitleBudget)),
                             "done", ok)
    /\ UNCHANGED <<BOT_TOKEN, CHAT_ID, app, table, buttons, job, call>>

watchlist_command ==
    /\ CanDispatch("watchlist")
    /\ \E c \in Chats, ok \in BOOLEAN :
          LET watchlist == get_watchlist(table, c)
              r == [Begin("watchlist", c, <<>>) EXCEPT !.wl = watchlist]
          IN  IF watchlist = <<>>
              THEN /\ h' = Send(r, Plain("empty"), "done", ok)
                   /\ buttons' = IF ok THEN buttons \cup {<<c, HelpAdd>>} ELSE buttons
              ELSE /\ h' = Send(r, Plain("loading"), "watchlist_1", ok)
                   /\ UNCHANGED buttons
    /\ UNCHANGED <<BOT_TOKEN, CHAT_ID, app, table, job, call>>

\* the quote loop and the summary
watchlist_command_1 ==
    /\ At("watchlist", "watchlist_1")
    /\ \E ups \in [DOMAIN h.wl -> Infos], ok \in BOOLEAN :
          LET infos == QuoteLoop(h.wl, ups)
              r == [h EXCEPT !.ups = ups, !.fetches = @ + Len(h.wl), !.call = "none"]
          IN  h' = IF Raised(infos) THEN [r EXCEPT !.pc = "exception"]
                   ELSE Send(r, Msg("quotes", WatchlistBlocks(h.wl, infos), <<>>),
                             "done", ok)
    /\ UNCHANGED <<BOT_TOKEN, CHAT_ID, app, table, buttons, job, call>>

\* one pass of the loop of add_command or remove_command, as the run saw it:
\* the argument, the ticker made of it, what the table call did, the table
\* before and after it
Result(arg, ticker, ok, before, after, name) ==
    [arg |-> arg, ticker |-> ticker, ok |-> ok, before |-> before, after |-> after,
     name |-> name]

\* a loop whose adds all write to the table as the run found it
RECURSIVE AddLoopStale(_, _, _, _, _)
AddLoopStale(tab, chat, args, ups, results) ==
    IF args = <<>> THEN [table |-> tab, results |-> results, exc |-> FALSE]
    ELSE LET ticker == Strip(Upper(Head(args)))
             info == get_stock_info(ticker, Head(ups))
             found == IF results = <<>> THEN tab ELSE results[1].before
         IN  IF info.tag = "exc" THEN [table |-> tab, results |-> results, exc |-> TRUE]
             ELSE IF info.tag = "quote"
             THEN LET after == add_to_watchlist(found, chat, ticker, info.name, Today)
                  IN  AddLoopStale(after, chat, Tail(args), Tail(ups),
                                   Append(results,
                                          Result(Head(args), ticker, TRUE, tab, after,
                                                 info.name)))
             ELSE AddLoopStale(tab, chat, Tail(args), Tail(ups),
                               Append(results,
                                      Result(Head(args), ticker, FALSE, tab, tab, <<>>)))

\* a loop that adds the symbol whether its lookup returned a quote or not
RECURSIVE AddLoopUnchecked(_, _, _, _, _)
AddLoopUnchecked(tab, chat, args, ups, results) ==
    IF args = <<>> THEN [table |-> tab, results |-> results, exc |-> FALSE]
    ELSE LET ticker == Strip(Upper(Head(args)))
             info == get_stock_info(ticker, Head(ups))
             name == IF info.tag = "quote" THEN info.name ELSE ticker
             after == add_to_watchlist(tab, chat, ticker, name, Today)
         IN  AddLoopUnchecked(after, chat, Tail(args), Tail(ups),
                              Append(results,
                                     Result(Head(args), ticker, info.tag = "quote", tab,
                                            after, name)))

\* for ticker in context.args: ticker.upper().strip(); get_stock_info;
\* add_to_watchlist when a quote came back
RECURSIVE AddLoop(_, _, _, _, _)
AddLoop(tab, chat, args, ups, results) ==
    IF args = <<>> THEN [table |-> tab, results |-> results, exc |-> FALSE]
    ELSE LET ticker == Strip(Upper(Head(args)))
             info == get_stock_info(ticker, Head(ups))
         IN  IF info.tag = "exc" THEN [table |-> tab, results |-> results, exc |-> TRUE]
             ELSE IF info.tag = "quote"
             THEN LET after == add_to_watchlist(tab, chat, ticker, info.name, Today)
                  IN  AddLoop(after, chat, Tail(args), Tail(ups),
                              Append(results,
                                     Result(Head(args), ticker, TRUE, tab, after, info.name)))
             ELSE AddLoop(tab, chat, Tail(args), Tail(ups),
                          Append(results, Result(Head(args), ticker, FALSE, tab, tab, <<>>)))

add_command ==
    /\ CanDispatch("add")
    /\ \E c \in Chats, args \in ArgLists, ok \in BOOLEAN :
          IF args = <<>>
          THEN /\ h' = Send(Begin("add", c, args), Plain("usage"), "done", ok)
               /\ UNCHANGED table
          ELSE \E ups \in [DOMAIN args -> InfosOfAdd] :
                  LET loop == AddLoop(table, c, args, ups, <<>>)
                      r == [Begin("add", c, args) EXCEPT
                               !.ups = ups, !.results = loop.results,
                               !.fetches = Len(loop.results) + (IF loop.exc THEN 1 ELSE 0)]
                  IN  /\ table' = loop.table
                      /\ h' = IF loop.exc THEN [r EXCEPT !.pc = "exception"]
                              ELSE Send(r, Plain("add_result"), "done", ok)
    /\ UNCHANGED <<BOT_TOKEN, CHAT_ID, app, buttons, job, call>>

\* for ticker in context.args: ticker.upper().strip(); remove_from_watchlist
RECURSIVE RemoveLoop(_, _, _, _)
RemoveLoop(tab, chat, args, results) ==
    IF args = <<>> THEN [table |-> tab, results |-> results]
    ELSE LET ticker == Strip(Upper(Head(args)))
             rm == remove_from_watchlist(tab, chat, ticker)
         IN  RemoveLoop(rm.table, chat, Tail(args),
                        Append(results,
                               Result(Head(args), ticker, rm.result, tab, rm.table, <<>>)))

remove_command ==
    /\ CanDispatch("remove")
    /\ \E c \in Chats, args \in ArgLists, ok \in BOOLEAN :
          IF args = <<>>
          THEN /\ h' = Send(Begin("remove", c, args), Plain("usage"), "done", ok)
               /\ UNCHANGED table
          ELSE LET loop == RemoveLoop(table, c, args, <<>>)
                   r == [Begin("remove", c, args) EXCEPT !.results = loop.results]
               IN  /\ table' = loop.table
                   /\ h' = Send(r, Plain("remove_result"), "done", ok)
    /\ UNCHANGED <<BOT_TOKEN, CHAT_ID, app, buttons, job, call>>

quote_command ==
    /\ CanDispatch("quote")
    /\ \E c \in Chats, args \in ArgLists, ok \in BOOLEAN :
          h' = IF args = <<>>
               THEN Send(Begin("quote", c, args), Plain("usage"), "done", ok)
               ELSE Send([Begin("quote", c, args) EXCEPT !.ticker = Upper(args[1])],
                         Plain("loading"), "quote_1", ok)
    /\ UNCHANGED <<BOT_TOKEN, CHAT_ID, app, table, buttons, job, call>>

\* the lookup, the keyboard and the reply
quote_command_1 ==
    /\ At("quote", "quote_1")
    /\ \E up \in Infos, ok \in BOOLEAN :
          LET info == get_stock_info(h.ticker, up)
              r == [h EXCEPT !.ups = <<up>>, !.fetches = @ + 1, !.call = "none"]
              watchlist == get_watchlist(table, h.chat)
              in_wl == \E i \in DOMAIN watchlist : watchlist[i].ticker = h.ticker
              kb == {<<h.chat, (IF in_wl THEN RemovePrefix ELSE AddPrefix) \o h.ticker>>,
                     <<h.chat, NewsPrefix \o h.ticker>>}
          IN  IF info.tag = "exc"
              THEN h' = [r EXCEPT !.pc = "exception"] /\ UNCHANGED buttons
              ELSE IF info.tag = "None"
              THEN h' = Send(r, Plain("not_found"), "done", ok) /\ UNCHANGED buttons
              ELSE /\ h' = Send(r, Msg("quote", <<Block(h.ticker, info, FALSE)>>, <<>>),
                                "done", ok)
                   /\ buttons' = IF ok THEN buttons \cup kb ELSE buttons
    /\ UNCHANGED <<BOT_TOKEN, CHAT_ID, app, table, job, call>>

\* a command that looks the news up before it checks its argument
ticker_news_command_fetch_first ==
    /\ CanDispatch("ticker_news")
    /\ \E c \in Chats, args \in ArgLists, ok \in BOOLEAN :
          h' = IF args = <<>>
               THEN Send([Begin("ticker_news", c, args) EXCEPT !.fetches = 1],
                         Plain("usage"), "done", ok)
               ELSE Send([Begin("ticker_news", c, args) EXCEPT !.ticker = Upper(args[1])],
                         Plain("loading"), "ticker_news_1", ok)
    /\ UNCHANGED <<BOT_TOKEN, CHAT_ID, app, table, buttons, job, call>>

ticker_news_command ==
    /\ CanDispatch("ticker_news")
    /\ \E c \in Chats, args \in ArgLists, ok \in BOOLEAN :
          h' = IF args = <<>>
               THEN Send(Begin("ticker_news", c, args), Plain("usage"), "done", ok)
               ELSE Send([Begin("ticker_news", c, args) EXCEPT !.ticker = Upper(args[1])],
                         Plain("loading"), "ticker_news_1", ok)
    /\ UNCHANGED <<BOT_TOKEN, CHAT_ID, app, table, buttons, job, call>>

\* news = get_stock_news(ticker, limit=6); the quote for the heading; the reply
ticker_news_command_1 ==
    /\ At("ticker_news", "ticker_news_1")
    /\ \E nup \in NewsUps, ok \in BOOLEAN :
          LET news == get_stock_news(nup, TickerNewsLimit)
          IN  IF news = <<>>
              THEN h' = Send([h EXCEPT !.fetches = @ + 1, !.call = "none"],
                             Plain("no_news"), "done", ok)
              ELSE \E up \in Infos :
                      LET info == get_stock_info(h.ticker, up)
                          r == [h EXCEPT !.ups = <<up>>, !.fetches = @ + 2,
                                         !.call = "none"]
                      IN  h' = IF info.tag = "exc" THEN [r EXCEPT !.pc = "exception"]
                               ELSE Send(r, Msg("news", <<>>,
                                                Headlines(news, TickerTitleBudget)),
                                         "done", ok)
    /\ UNCHANGED <<BOT_TOKEN, CHAT_ID, app, table, buttons, job, call>>

report_command ==
    /\ CanDispatch("report")
    /\ \E c \in Chats, ok \in BOOLEAN :
          LET watchlist == get_watchlist(table, c)
              r == [Begin("report", c, <<>>) EXCEPT !.wl = watchlist]
          IN  h' = IF watchlist = <<>> THEN Send(r, Plain("empty"), "done", ok)
                   ELSE Send(r, Plain("loading"), "report_1", ok)
    /\ UNCHANGED <<BOT_TOKEN, CHAT_ID, app, table, buttons, job, call>>

\* the quote loop and the quotes message
report_command_1 ==
    /\ At("report", "report_1")
    /\ \E ups \in [DOMAIN h.wl -> Infos], ok \in BOOLEAN :
          LET infos == QuoteLoop(h.wl, ups)
              r == [h EXCEPT !.ups = ups, !.fetches = @ + Len(h.wl), !.i = 1,
                             !.call = "none"]
          IN  h' = IF Raised(infos) THEN [r EXCEPT !.pc = "exception"]
                   ELSE Send(r, Msg("quotes", ReportBlocks(h.wl, infos), <<>>),
                             "report_news", ok)
    /\ UNCHANGED <<BOT_TOKEN, CHAT_ID, app, table, buttons, job, call>>

\* the first item from i on whose news list is not empty, or 0
RECURSIVE FirstWithNews(_, _, _)
FirstWithNews(i, n, nups) ==
    IF i > n THEN 0
    ELSE IF get_stock_news(nups[i], ReportNewsLimit) # <<>> THEN i
    ELSE FirstWithNews(i + 1, n, nups)

\* what the news loop got for the items from number i to number j: the
\* symbol, and the number of news items get_stock_news returned for it
Looked(wl, i, j, nups) ==
    [k \in 1 .. (j + 1 - i) |->
        [ticker |-> wl[i + k - 1].ticker,
         n |-> Len(get_stock_news(nups[i + k - 1], ReportNewsLimit))]]

\* a sleep that is left out
report_command_no_sleep ==
    /\ app.pc = "polling" /\ h.kind = "report" /\ h.pc = "report_sleep" /\ ~JobEnded
    /\ h' = [h EXCEPT !.i = @ + 1, !.pc = "report_news"]
    /\ UNCHANGED <<BOT_TOKEN, CHAT_ID, app, table, buttons, job, call>>

\* the news loop from item i on, up to its next await: the items without news
\* are passed over, the first one with news gets its message
report_command_news ==
    /\ At("report", "report_news")
    /\ \E nups \in [h.i .. Len(h.wl) -> NewsUps], ok \in BOOLEAN :
          LET j == FirstWithNews(h.i, Len(h.wl), nups)
          IN  h' = IF j = 0
                   THEN [h EXCEPT !.pc = "done", !.fetches = @ + (Len(h.wl) + 1 - h.i),
                                  !.i = Len(h.wl) + 1, !.call = "none",
                                  !.news = @ \o Looked(h.wl, h.i, Len(h.wl), nups)]
                   ELSE Send([h EXCEPT !.fetches = @ + (j + 1 - h.i), !.i = j,
                                       !.call = "none",
                                       !.news = @ \o Looked(h.wl, h.i, j, nups)],
                             Msg("news", <<Block(h.wl[j].ticker, QNone, FALSE)>>,
                                 Headlines(get_stock_news(nups[j], ReportNewsLimit),
                                           TitleBudget)),
                             "report_sleep", ok)
    /\ UNCHANGED <<BOT_TOKEN, CHAT_ID, app, table, buttons, job, call>>

\* await asyncio.sleep(0.5), then the next item
report_command_sleep ==
    /\ At("report", "report_sleep")
    /\ h' = [h EXCEPT !.sent = Append(@, Plain("sleep")), !.i = @ + 1,
                      !.pc = "report_news"]
    /\ UNCHANGED <<BOT_TOKEN, CHAT_ID, app, table, buttons, job, call>>

\* query.answer()
button_callback ==
    /\ CanDispatch("button")
    /\ \E b \in buttons, ok \in BOOLEAN :
          h' = Send([Begin("button", b[1], <<>>) EXCEPT !.data = b[2]],
                    Plain("answer"), "button_1", ok)
    /\ UNCHANGED <<BOT_TOKEN, CHAT_ID, app, table, buttons, job, call>>

\* the if / elif chain over the callback data
button_callback_1 ==
    /\ At("button", "button_1")
    /\ \E up \in Infos, nup \in NewsUps, ok \in BOOLEAN :
          IF h.data = HelpAdd
          THEN h' = Send(h, Plain("help"), "done", ok) /\ UNCHANGED table
          ELSE IF StartsWith(h.data, AddPrefix)
          THEN LET ticker == Drop(h.data, 4)
                   info == get_stock_info(ticker, up)
                   r == [h EXCEPT !.ticker = ticker, !.ups = <<up>>, !.fetches = @ + 1,
                                  !.call = "none"]
               IN  IF info.tag = "exc"
                   THEN h' = [r EXCEPT !.pc = "exception"] /\ UNCHANGED table
                   ELSE IF info.tag = "quote"
                   THEN LET after == add_to_watchlist(table, h.chat, ticker, info.name, Today)
                        IN  /\ table' = after
                            /\ h' = Send([r EXCEPT !.results =
                                             <<Result(ticker, ticker, TRUE, table, after,
                                                      info.name)>>],
                                         Plain("added"), "done", ok)
                   ELSE h' = [r EXCEPT !.pc = "done"] /\ UNCHANGED table
          ELSE IF StartsWith(h.data, RemovePrefix)
          THEN LET ticker == Drop(h.data, 7)
                   rm == remove_from_watchlist(table, h.chat, ticker)
               IN  /\ table' = rm.table
                   /\ h' = Send([h EXCEPT !.ticker = ticker, !.results =
                                    <<Result(ticker, ticker, rm.result, table, rm.table,
                                             <<>>)>>],
                                Plain("removed"), "done", ok)
          ELSE IF StartsWith(h.data, NewsPrefix)
          THEN LET ticker == Drop(h.data, 5)
                   news == get_stock_news(nup, ButtonNewsLimit)
                   r == [h EXCEPT !.ticker = ticker, !.fetches = @ + 1, !.call = "none"]
               IN  /\ h' = IF news = <<>> THEN Send(r, Plain("no_news"), "done", ok)
                           ELSE Send(r, Msg("news", <<>>, Headlines(news, TitleBudget)),
                                     "done", ok)
                   /\ UNCHANGED table
          ELSE h' = [h EXCEPT !.pc = "done"] /\ UNCHANGED table
    /\ UNCHANGED <<BOT_TOKEN, CHAT_ID, app, buttons, job, call>>

\* ------------------------------------------------------------------------
\* daily_report, the job the scheduler fires at 08:00
\* ------------------------------------------------------------------------
\* scheduler.add_job(daily_report, ...) names no max_instances: the scheduler
\* runs at most this many instances of the job at a time
MaxInstances == 1

\* a scheduler that starts the job at every firing
SchedulerAdmitsAll(instances) == TRUE

\* the scheduler starts the job at a firing unless the instances running have
\* reached the maximum
SchedulerAdmits(instances) == instances < MaxInstances

\* a job that takes any CHAT_ID for a recipient
RecipientAlways(chat_id) == FALSE

\* if not CHAT_ID
NoRecipient(chat_id) == chat_id = ""

\* a send whose failure leaves the run waiting for it
JobSendWaits(r, msg, pc, outcome, ok) ==
    IF ok THEN [r EXCEPT !.sent = Append(@, msg), !.pc = pc, !.outcome = outcome]
    ELSE [r EXCEPT !.pc = "sending"]

\* await app.bot.send_message(...) of the job: sent, or the send raises and
\* the run ends
JobSend(r, msg, pc, outcome, ok) ==
    IF ok THEN [r EXCEPT !.sent = Append(@, msg), !.pc = pc, !.outcome = outcome]
    ELSE [r EXCEPT !.pc = "end", !.outcome = "send_failed"]

\* the firing, up to the first await: the recipient check, the watchlist, the
\* quote loop, the quotes message
daily_report ==
    /\ app.pc = "polling" /\ app.scheduler = "started"
    /\ job.pc \in {"idle", "news"} /\ SchedulerAdmits(job.instances) /\ LoopFree
    /\ IF NoRecipient(CHAT_ID)
       THEN job' = [IdleJob EXCEPT !.pc = "end", !.outcome = "no_recipient",
                                   !.instances = job.instances + 1]
       ELSE LET watchlist == get_watchlist(table, CHAT_ID)
                r == [IdleJob EXCEPT !.wl = watchlist, !.reads = 1,
                                     !.instances = job.instances + 1]
            IN  IF watchlist = <<>>
                THEN job' = [r EXCEPT !.pc = "end", !.outcome = "empty"]
                ELSE \E ups \in [DOMAIN watchlist -> Infos], ok \in BOOLEAN :
                        LET infos == QuoteLoop(watchlist, ups)
                            q == [r EXCEPT !.ups = ups, !.fetches = Len(watchlist)]
                        IN  job' = IF Raised(infos)
                                   THEN [q EXCEPT !.pc = "end", !.outcome = "exception"]
                                   ELSE JobSend(q, Msg("quotes",
                                                       DailyBlocks(watchlist, infos), <<>>),
                                                "news", "running", ok)
    /\ UNCHANGED <<BOT_TOKEN, CHAT_ID, app, table, buttons, h, call>>

\* the trigger fires while the job's run waits at its await: the scheduler
\* skips the firing
daily_report_skipped ==
    /\ app.pc = "polling" /\ app.scheduler = "started"
    /\ job.pc = "news" /\ ~SchedulerAdmits(job.instances) /\ LoopFree
    /\ job.skipped < MaxSkips
    /\ job' = [job EXCEPT !.skipped = @ + 1]
    /\ UNCHANGED <<BOT_TOKEN, CHAT_ID, app, table, buttons, h, call>>

\* a news stretch that leaves the run where it was, to be resumed once more
daily_report_news_again ==
    /\ app.pc = "polling"
    /\ job.pc = "news" /\ LoopFree
    /\ \E feeds \in FeedUps, ok \in BOOLEAN :
          LET news == get_general_news(feeds, DailyNewsLimit)
              r == [job EXCEPT !.fetches = @ + Len(RSS_FEEDS)]
          IN  job' = IF news = <<>> THEN [r EXCEPT !.pc = "end", !.outcome = "done"]
                     ELSE JobSend(r, Msg("headlines", <<>>, Headlines(news, TitleBudget)),
                                  "news", "running", ok)
    /\ UNCHANGED <<BOT_TOKEN, CHAT_ID, app, table, buttons, h, call>>

\* news = get_general_news(limit=5) and the headline message
daily_report_news ==
    /\ app.pc = "polling"
    /\ job.pc = "news" /\ LoopFree
    /\ \E feeds \in FeedUps, ok \in BOOLEAN :
          LET news == get_general_news(feeds, DailyNewsLimit)
              r == [job EXCEPT !.fetches = @ + Len(RSS_FEEDS)]
          IN  job' = IF news = <<>> THEN [r EXCEPT !.pc = "end", !.outcome = "done"]
                     ELSE JobSend(r, Msg("headlines", <<>>, Headlines(news, TitleBudget)),
                                  "end", "done", ok)
    /\ UNCHANGED <<BOT_TOKEN, CHAT_ID, app, table, buttons, h, call>>

\* the job returns; the scheduler waits for the next firing
daily_report_return ==
    /\ JobEnded
    /\ job' = IdleJob
    /\ UNCHANGED <<BOT_TOKEN, CHAT_ID, app, table, buttons, h, call>>

\* ------------------------------------------------------------------------
\* The adapters on their own: one call, its inputs drawn at the start
\* ------------------------------------------------------------------------
\* the values a key of the quote payload can hold
PyVals == {Missing, PyNone, Num(0), Num(2), Num(3), Str}

InfoInputs ==
    {InfoRaise, Info("notdict", Missing, Missing, Missing, <<>>)}
    \cup {Info("dict", cur, reg, prev, short) :
              cur \in PyVals, reg \in PyVals, prev \in PyVals, short \in {<<>>, N1}}

\* the items of an upstream news list: titled in its content, titled on the
\* item, untitled, no dict
ItemKinds == {Item(FALSE, T1, <<>>), Item(FALSE, <<>>, T2), Item(FALSE, <<>>, <<>>),
              Item(TRUE, <<>>, <<>>)}

NewsInputs ==
    {NewsRaise, NewsNone}
    \cup {[kind |-> "list", items |-> q] : q \in SeqsUpTo(ItemKinds, MaxNews)}

\* the limits get_stock_news is called with
NewsLimits == {ReportNewsLimit, ButtonNewsLimit, TickerNewsLimit}

\* a feed that answers with n entries, titled in turn t1, t2, t1, ..., but for
\* entry number u, which has no title (u = 0: all are titled)
FeedOf(n, u) ==
    Feed("ok", [j \in 1 .. n |-> Entry(IF j = u THEN <<>>
                                        ELSE IF j % 2 = 1 THEN T1 ELSE T2)])

FeedKinds == {FeedDown} \cup {FeedOf(n, u) : n \in 0 .. MaxEntries, u \in 0 .. MaxEntries}

FeedInputs == [1 .. Len(RSS_FEEDS) -> FeedKinds]

\* the limits get_general_news is called with
FeedLimits == {NewsCommandLimit, DailyNewsLimit}

InitQuote ==
    /\ InitAdapter
    /\ \E t \in Tokens, p \in InfoInputs :
          call = [NoCall EXCEPT !.fn = "get_stock_info", !.ticker = t, !.info = p]

InitNews ==
    /\ InitAdapter
    /\ \E up \in NewsInputs, n \in NewsLimits :
          call = [NoCall EXCEPT !.fn = "get_stock_news", !.news = up, !.limit = n]

InitFeeds ==
    /\ InitAdapter
    /\ \E fs \in FeedInputs, n \in FeedLimits :
          call = [NoCall EXCEPT !.fn = "get_general_news", !.feeds = fs, !.limit = n]

call_get_stock_info ==
    /\ call.fn = "get_stock_info" /\ ~call.done
    /\ call' = [call EXCEPT !.done = TRUE, !.quote = get_stock_info(call.ticker, call.info)]
    /\ UNCHANGED <<BOT_TOKEN, CHAT_ID, app, table, buttons, h, job>>

call_get_stock_news ==
    /\ call.fn = "get_stock_news" /\ ~call.done
    /\ call' = [call EXCEPT !.done = TRUE, !.items = get_stock_news(call.news, call.limit)]
    /\ UNCHANGED <<BOT_TOKEN, CHAT_ID, app, table, buttons, h, job>>

call_get_general_news ==
    /\ call.fn = "get_general_news" /\ ~call.done
    /\ call' = [call EXCEPT !.done = TRUE,
                            !.items = get_general_news(call.feeds, call.limit)]
    /\ UNCHANGED <<BOT_TOKEN, CHAT_ID, app, table, buttons, h, job>>

\* ------------------------------------------------------------------------
\* Specifications
\* ------------------------------------------------------------------------
\* the handlers that manage the watchlist
NextWatchlist ==
    \/ main
    \/ add_command
    \/ remove_command
    \/ quote_command
    \/ quote_command_1
    \/ button_callback
    \/ button_callback_1
    \/ upstream_call
    \/ handler_return

\* the handlers that report, and the daily job
NextReports ==
    \/ main
    \/ start
    \/ schedule_command
    \/ news_command
    \/ news_command_1
    \/ watchlist_command
    \/ watchlist_command_1
    \/ ticker_news_command
    \/ ticker_news_command_1
    \/ report_command
    \/ report_command_1
    \/ report_command_news
    \/ report_command_sleep
    \/ upstream_call
    \/ handler_return
    \/ daily_report
    \/ daily_report_skipped
    \/ daily_report_news
    \/ daily_report_return

Next == NextWatchlist \/ NextReports

\* the whole bot
Spec == Init /\ [][Next]_vars

\* the bot with the watchlist handlers alone
SpecWatchlist == Init /\ [][NextWatchlist]_vars

\* the bot with the reporting handlers and the daily job alone
SpecReports == Init /\ [][NextReports]_vars

\* the commands that take an argument
NextCommands ==
    \/ main
    \/ add_command
    \/ remove_command
    \/ quote_command
    \/ quote_command_1
    \/ ticker_news_command
    \/ ticker_news_command_1
    \/ upstream_call
    \/ handler_return

SpecCommands == Init /\ [][NextCommands]_vars

\* the daily job next to two of the handlers
NextJob ==
    \/ main
    \/ start
    \/ news_command
    \/ news_command_1
    \/ upstream_call
    \/ handler_return
    \/ daily_report
    \/ daily_report_skipped
    \/ daily_report_news
    \/ daily_report_return

SpecJob == Init /\ [][NextJob]_vars

\* the loop runs what is ready: an upstream call returns or raises, a handler
\* that has ended returns, and the job's coroutine is resumed once its send is
\* over, however often handlers run in between
SpecJobFair ==
    /\ SpecJob
    /\ WF_vars(news_command_1)
    /\ WF_vars(handler_return)
    /\ SF_vars(daily_report_news)
    /\ WF_vars(daily_report_return)

\* one call of get_stock_info, get_stock_news, get_general_news
SpecQuote == InitQuote /\ [][call_get_stock_info]_vars
SpecNews == InitNews /\ [][call_get_stock_news]_vars
SpecFeeds == InitFeeds /\ [][call_get_general_news]_vars

\* ------------------------------------------------------------------------
\* Properties
\* ------------------------------------------------------------------------
\* the normalized form of a symbol: uppercased and trimmed
Normalize(sym) == Strip(Upper(sym))

\* the rows of tab under the key (owner, symbol)
Entries(tab, owner, sym) == {r \in tab : r.chat_id = owner /\ r.ticker = sym}

\* tab holds at most one row per key, and normalized symbols only
KeyedAndNormalized(tab) ==
    /\ \A r1 \in tab, r2 \in tab :
          (r1.chat_id = r2.chat_id /\ r1.ticker = r2.ticker) => r1 = r2
    /\ \A r \in tab : Normalize(r.ticker) = r.ticker

\* the entries of list(owner) with the symbol sym
Listed(tab, owner, sym) ==
    LET wl == get_watchlist(tab, owner)
    IN  {i \in DOMAIN wl : wl[i].ticker = sym}

\* the run in h added to the table, from add_command or from an add_ button
IsAddRun == h.kind = "add" \/ (h.kind = "button" /\ StartsWith(h.data, AddPrefix))

\* the run in h removed from the table, from remove_command or from a remove_
\* button
IsRemoveRun == h.kind = "remove" \/ (h.kind = "button" /\ StartsWith(h.data, RemovePrefix))

\* C1: after any adds and removes, from the commands and from the buttons, the
\* table holds at most one entry per (owner, symbol) and every stored symbol is
\* uppercased and trimmed; an add of any spelling of a symbol leaves exactly one
\* entry, under the normalized symbol, in the owner's list, also when repeated.
C1_StoreKeyedAndNormalized ==
    /\ KeyedAndNormalized(table)
    /\ \A k \in DOMAIN h.results :
          /\ KeyedAndNormalized(h.results[k].after)
          /\ (IsAddRun /\ h.results[k].ok) =>
                Cardinality(Listed(h.results[k].after, h.chat,
                                   Normalize(h.results[k].arg))) = 1

\* C1 witness: add_command with two spellings of one symbol, both added under
\* different names, and one entry for it in the table
C1_Witness ==
    /\ h.kind = "add" /\ h.pc = "done"
    /\ h.args = << <<"a">>, <<"A">> >>
    /\ h.results[1].ok /\ h.results[2].ok
    /\ h.results[1].name # h.results[2].name
    /\ Cardinality(Entries(table, h.chat, <<"A">>)) = 1

\* C2: a remove returns true exactly when an entry for (owner, normalized
\* symbol) was there right before the call; after the call there is none; of two
\* removes of one key in a row, the second returns false.
C2_RemoveReportsExistence ==
    IsRemoveRun =>
        \A k \in DOMAIN h.results :
            LET e == h.results[k]
            IN  /\ e.ok <=> (Entries(e.before, h.chat, Normalize(e.arg)) # {})
                /\ Entries(e.after, h.chat, Normalize(e.arg)) = {}
                /\ (k > 1 /\ Normalize(h.results[k - 1].arg) = Normalize(e.arg)) => ~e.ok

\* C2 witness: remove_command with the same key twice: true, then false
C2_Witness ==
    /\ h.kind = "remove" /\ h.pc = "done"
    /\ Len(h.results) = 2
    /\ Normalize(h.args[1]) = Normalize(h.args[2])
    /\ h.results[1].ok /\ ~h.results[2].ok

\* the quote summaries the run r has sent
Summaries(r) == {k \in DOMAIN r.sent : r.sent[k].type = "quotes"}

\* a summary over wl with one block per symbol, in the order of wl, and the
\* not-available marker on each symbol whose quote is absent
OneBlockPerSymbol(wl, ups, m) ==
    /\ Len(m.blocks) = Len(wl)
    /\ \A i \in DOMAIN wl :
          i \in DOMAIN m.blocks =>
              /\ m.blocks[i].symbol = wl[i].ticker
              /\ get_stock_info(wl[i].ticker, ups[i]).tag = "None" => m.blocks[i].marker

\* C3: every quote summary, of watchlist_command, report_command and
\* daily_report, has exactly one block per symbol of the watchlist, in its
\* order, and marks the symbols without a quote as not available.
C3_OneBlockPerSymbol ==
    /\ \A k \in Summaries(h) : OneBlockPerSymbol(h.wl, h.ups, h.sent[k])
    /\ \A k \in Summaries(job) : OneBlockPerSymbol(job.wl, job.ups, job.sent[k])

\* the quote source answers with a price the quote can be computed from
LookupSucceeds(p) ==
    /\ p.kind = "dict"
    /\ \/ (p.currentPrice.t = "num" /\ p.currentPrice.v # 0)
       \/ (p.currentPrice \in {Missing, PyNone, Num(0)} /\ p.regularMarketPrice.t = "num"
           /\ p.regularMarketPrice.v # 0)
    /\ p.previousClose.t \in {"missing", "num"}

\* the price of such an answer
UpstreamPrice(p) ==
    IF p.currentPrice.t = "num" /\ p.currentPrice.v # 0 THEN p.currentPrice.v
    ELSE p.regularMarketPrice.v

\* in the summary m over wl, each symbol whose lookup succeeded has its quote,
\* and each symbol whose lookup failed has none
FailuresIsolated(wl, ups, m) ==
    /\ Len(ups) = Len(wl)
    /\ \A i \in DOMAIN wl :
          LET quoted == {j \in DOMAIN m.blocks :
                            /\ m.blocks[j].symbol = wl[i].ticker
                            /\ m.blocks[j].quote.tag = "quote"}
          IN  IF LookupSucceeds(ups[i])
              THEN \E j \in quoted : m.blocks[j].quote.price = UpstreamPrice(ups[i])
              ELSE quoted = {}

\* C4: a failing quote lookup for one symbol leaves the other symbols alone:
\* no run ends in an exception, every symbol is looked up, each symbol whose
\* lookup succeeds is in the summary with its quote, and the failing one has no
\* quote.
C4_QuoteFailuresIsolated ==
    /\ h.pc # "exception"
    /\ job.outcome # "exception"
    /\ \A k \in Summaries(h) : FailuresIsolated(h.wl, h.ups, h.sent[k])
    /\ \A k \in Summaries(job) : FailuresIsolated(job.wl, job.ups, job.sent[k])

\* C4 witness: a report over two symbols, the first lookup raises, the second
\* symbol has its quote in the summary
C4_Witness ==
    /\ h.kind = "report" /\ Len(h.wl) = 2 /\ Summaries(h) # {}
    /\ h.ups[1] = InfoRaise /\ h.ups[2] = InfoCurrent
    /\ \E k \in Summaries(h) :
          /\ h.sent[k].blocks[1].marker
          /\ h.sent[k].blocks[2].quote.tag = "quote"
          /\ h.sent[k].blocks[2].quote.price = 3

\* the payload holds no value under the key
Lacks(x) == x.t \in {"missing", "none"}

\* the payload is no dict, or a value the quote is computed from is no number
Malformed(p) ==
    \/ p.kind = "notdict"
    \/ /\ p.kind = "dict"
       /\ \/ p.currentPrice.t = "str"
          \/ p.previousClose.t \in {"str", "none"}
          \/ (p.regularMarketPrice.t = "str" /\ ~Truthy(p.currentPrice))

\* C5: get_stock_info lets no failure out: it returns None when the lookup
\* raises, when the payload is malformed and when the payload has neither
\* price; a quote it returns has the current price or, without one, the
\* regular-market price.
C5_QuoteAbsorbsFailures ==
    call.done =>
        /\ call.quote.tag \in {"None", "quote"}
        /\ call.info.kind = "raise" => call.quote.tag = "None"
        /\ Malformed(call.info) => call.quote.tag = "None"
        /\ (call.info.kind = "dict" /\ Lacks(call.info.currentPrice)
            /\ Lacks(call.info.regularMarketPrice)) => call.quote.tag = "None"
        /\ call.quote.tag = "quote" =>
              /\ LookupSucceeds(call.info)
              /\ call.quote.price = UpstreamPrice(call.info)

\* C5 witness: a payload with a price and a previous close that is no number;
\* the subtraction raises and the call returns None
C5_Witness ==
    /\ call.done
    /\ call.info.kind = "dict"
    /\ call.info.currentPrice = Num(3)
    /\ call.info.previousClose = Str
    /\ call.quote.tag = "None"

\* the texts the run r sent to the chat
Replies(r) == {k \in DOMAIN r.sent : r.sent[k].type \notin NonText}

\* C6: every handler run that ends without an exception has sent at least one
\* text to the chat.
C6_EveryRunReplies == h.pc = "done" => Replies(h) # {}

\* the upstream item has a title
HasTitle(item) == ItemTitle(item) # <<>>

\* the news items made of the titled ones among the upstream items, in order
TitledOf(items) ==
    LET kept == SelectSeq(items, HasTitle)
    IN  [i \in DOMAIN kept |-> [title |-> ItemTitle(kept[i])]]

\* every one of the items is a dict of the expected shape
WellFormed(items) == \A i \in DOMAIN items : ~items[i].malformed

\* C7, as claimed: get_stock_news returns the first `limit` titled items of
\* the upstream list, the untitled ones dropped before the limit is applied.
C7_FilterBeforeLimit ==
    (call.done /\ call.news.kind = "list" /\ WellFormed(call.news.items)) =>
        call.items = Take(TitledOf(call.news.items), call.limit)

\* C7, amended: get_stock_news returns the titled items among the first
\* `limit` items of the upstream list, in upstream order: the limit is applied
\* first, so an untitled item among the first `limit` makes the result shorter.
C7_LimitBeforeFilter ==
    (call.done /\ call.news.kind = "list"
        /\ WellFormed(Take(call.news.items, call.limit))) =>
        call.items = TitledOf(Take(call.news.items, call.limit))

\* C7 witness: an untitled item among the first `limit`, a titled one after
\* them, and fewer than `limit` items returned
C7_Witness ==
    /\ call.done /\ call.news.kind = "list"
    /\ Len(call.news.items) > call.limit
    /\ WellFormed(call.news.items)
    /\ \E i \in 1 .. call.limit : ~HasTitle(call.news.items[i])
    /\ HasTitle(call.news.items[call.limit + 1])
    /\ Len(call.items) = call.limit - 1

\* the headline lists and news messages the run r has sent
TitleLists(r) == {k \in DOMAIN r.sent : r.sent[k].type \in {"headlines", "news"}}

NoEmptyTitle(m) == \A i \in DOMAIN m.titles : m.titles[i] # <<>>

\* C8: no news item with an empty title reaches a composer: every headline of
\* news_command, ticker_news_command, report_command and daily_report has a
\* title.
C8_NoEmptyTitleSurfaced ==
    /\ \A k \in TitleLists(h) : NoEmptyTitle(h.sent[k])
    /\ \A k \in TitleLists(job) : NoEmptyTitle(job.sent[k])

\* what feed number i contributes: nothing when its fetch fails, else its
\* first at most 3 entries
Contribution(feeds, i) ==
    IF feeds[i].kind = "raise" THEN <<>>
    ELSE [j \in 1 .. Min(3, Len(feeds[i].entries)) |->
             [title |-> feeds[i].entries[j].title, source |-> RSS_FEEDS[i]]]

\* the items of source among items
FromSource(items, source) == {k \in DOMAIN items : items[k].source = source}

\* the feeds' contributions joined in the configured order
Joined(feeds) ==
    Contribution(feeds, 1) \o Contribution(feeds, 2)
    \o Contribution(feeds, 3) \o Contribution(feeds, 4)

\* each of the 4 feeds answers with 3 entries or more
AllFeedsFull(feeds) ==
    \A i \in 1 .. 4 : feeds[i].kind = "ok" /\ Len(feeds[i].entries) >= 3

\* C9, as claimed: get_general_news(limit) returns the first `limit` items of
\* the feeds' contributions joined in the configured order; 4 feeds with 3
\* items each and limit 8 give 8 items, the last feed supplying 2 of them.
C9_LastFeedSuppliesTwo ==
    call.done =>
        /\ call.items = SubSeq(Joined(call.feeds), 1,
                               Min(call.limit, Len(Joined(call.feeds))))
        /\ (call.limit = 8 /\ AllFeedsFull(call.feeds)) =>
              /\ Len(call.items) = 8
              /\ Cardinality(FromSource(call.items, RSS_FEEDS[4])) = 2

\* C9, amended: get_general_news(limit) returns the first `limit` items of the
\* feeds' contributions joined in the configured order; 4 feeds with 3 items
\* each and limit 8 give 8 items, the third feed supplying 2 of them and the
\* last feed none.
C9_FeedsMergedAndCut ==
    call.done =>
        /\ call.items = SubSeq(Joined(call.feeds), 1,
                               Min(call.limit, Len(Joined(call.feeds))))
        /\ (call.limit = 8 /\ AllFeedsFull(call.feeds)) =>
              /\ Len(call.items) = 8
              /\ Cardinality(FromSource(call.items, RSS_FEEDS[3])) = 2
              /\ FromSource(call.items, RSS_FEEDS[4]) = {}

\* C9 witness: 4 feeds that answer with 3 entries or more, one of them with
\* more than 3, limit 8, and a result of 8 items
C9_Witness ==
    /\ call.done /\ call.limit = 8
    /\ AllFeedsFull(call.feeds)
    /\ Len(call.feeds[1].entries) > 3
    /\ Len(call.items) = 8

\* C9 witness of the isolation: the first feed is down and the others supply
\* the 8 items
C9_WitnessFeedDown ==
    /\ call.done /\ call.limit = 8
    /\ call.feeds[1].kind = "raise"
    /\ \A i \in 2 .. 4 : call.feeds[i].kind = "ok" /\ Len(call.feeds[i].entries) >= 3
    /\ Len(call.items) = 8
    /\ FromSource(call.items, RSS_FEEDS[1]) = {}

\* C10: without a configured recipient the daily job never runs: it sends
\* nothing, reads no watchlist and fetches nothing, and is idle again at once.
C10_NoRecipientNoRun ==
    CHAT_ID = "" =>
        /\ job.pc \in {"idle", "end"}
        /\ job.sent = <<>>
        /\ job.reads = 0
        /\ job.fetches = 0

\* C10 witness: the job has fired without a recipient
C10_Witness == CHAT_ID = "" /\ job.pc = "end" /\ job.outcome = "no_recipient"

\* C11: every run of the daily job that has left Idle is back in Idle later,
\* whatever its quote lookups, feed polls and sends did.
C11_RunReturnsToIdle == (job.pc # "idle") ~> (job.pc = "idle")

\* C11 witness: a run whose quotes message went out and whose second send
\* failed is about to return
C11_Witness ==
    job.pc = "end" /\ job.outcome = "send_failed" /\ Len(job.sent) = 1

\* C12: at most one run of the daily job is in progress at any time: a
\* firing of the trigger during a run is skipped, it starts no second run
\* and leaves the run in progress as it was.
C12_AtMostOneRun ==
    [][/\ job'.instances <= 1
       /\ (job'.instances = 1) <=> (job'.pc # "idle")
       /\ (job.pc # "idle" /\ job'.pc # "idle") =>
             /\ job'.wl = job.wl /\ job'.ups = job.ups
             /\ SubSeq(job'.sent, 1, Len(job.sent)) = job.sent
       /\ job'.skipped > job.skipped => [job' EXCEPT !.skipped = job.skipped] = job
      ]_vars

\* C12 witness: the trigger fired during a run and the firing was skipped
C12_Witness ==
    job.pc = "news" /\ job.instances = 1 /\ job.skipped = 1 /\ Len(job.sent) = 1

\* the run of a handler waits: for an upstream call to return, or at an await
Waiting(r) == r.pc # "idle" /\ ~Finished(r)

\* the events that have nothing to do with a handler's run: a firing of the
\* daily trigger, and the next stretch of the job's run
OtherEvents == daily_report \/ daily_report_skipped \/ daily_report_news

\* C13: while a handler waits on an upstream call (a quote lookup, a news
\* lookup, a feed poll, a send), an unrelated event, the scheduled trigger or
\* the job's run, can be handled: no upstream call blocks the event loop.
C13_UpstreamCallsDoNotBlock ==
    (app.scheduler = "started" /\ ~JobEnded /\ Waiting(h)) => ENABLED OtherEvents

\* the rows of tab under the other keys than (owner, sym)
OtherRows(tab, owner, sym) == tab \ Entries(tab, owner, sym)

\* what one table call of a run did, as one step from the table before it to
\* the table after it: an add leaves one row under its key, a remove none, a
\* failed lookup makes no call, and the rows under the other keys stay
OneStoreOp(e, owner, adds) ==
    /\ OtherRows(e.after, owner, e.ticker) = OtherRows(e.before, owner, e.ticker)
    /\ IF adds
       THEN IF e.ok
            THEN /\ Cardinality(Entries(e.after, owner, e.ticker)) = 1
                 /\ \A r \in Entries(e.after, owner, e.ticker) : r.name = e.name
            ELSE e.after = e.before
       ELSE Entries(e.after, owner, e.ticker) = {}

\* C14: the adds and removes of the runs take effect one after the other,
\* each one whole: every table call of a run starts from the table the call
\* before it left, the table after the run is what the run's last call left,
\* so the presence of a key is the effect of the last call on it, and no
\* step leaves a duplicate or a partly written row.
C14_StoreOpsSerialized ==
    [][LET rs == h'.results
       IN  (h'.kind \in {"add", "remove", "button"} /\ rs # <<>>) =>
             /\ h.results = <<>> => rs[1].before = table
             /\ \A k \in 1 .. Len(rs) - 1 : rs[k + 1].before = rs[k].after
             /\ table' = rs[Len(rs)].after
             /\ \A k \in DOMAIN rs :
                   OneStoreOp(rs[k], h'.chat,
                              h'.kind = "add" \/ StartsWith(h'.data, AddPrefix))
             /\ KeyedAndNormalized(table')
      ]_vars

\* C14 witness: two adds of one key in one run, under different names: one
\* row, with the name the last add wrote
C14_Witness ==
    /\ h.kind = "add" /\ Len(h.results) = 2
    /\ h.results[1].ok /\ h.results[2].ok
    /\ h.results[1].ticker = h.results[2].ticker
    /\ h.results[1].name # h.results[2].name
    /\ Entries(h.results[1].before, h.chat, h.results[1].ticker) # {}
    /\ \A r \in Entries(table, h.chat, h.results[2].ticker) : r.name = h.results[2].name

\* the commands that need an argument
ArgCommands == {"add", "remove", "quote", "ticker_news"}

\* C15: add, remove, quote and ticker_news without an argument reply with the
\* usage hint and do nothing else: the table and the buttons stay as they
\* are, no quote or news lookup is made, and the run ends with the reply.
C15_MissingArgumentNoEffect ==
    [][(h.pc = "idle" /\ h'.kind \in ArgCommands /\ h'.args = <<>>) =>
          /\ table' = table /\ buttons' = buttons
          /\ h'.fetches = 0 /\ h'.results = <<>>
          /\ ~InCall(h') /\ FirstCall(h') = "none"
          /\ \/ h'.pc = "done" /\ h'.sent = <<Plain("usage")>>
             \/ h'.pc = "send_failed" /\ h'.sent = <<>>
      ]_vars

\* C15 witness: ticker_news without an argument, over a table that holds
\* rows, has replied with the usage hint
C15_Witness ==
    /\ h.kind = "ticker_news" /\ h.args = <<>> /\ h.pc = "done"
    /\ h.sent = <<Plain("usage")>>
    /\ table # {}

\* C16: a quote's change is its price minus the previous close, taken as the
\* price when the payload has none; change_pct is 0 when the previous close
\* is 0 or not in the payload; nothing is divided by zero, and the quote is
\* returned in those cases too.
C16_ChangeAndPercent ==
    call.done =>
        LET p == call.info
            q == call.quote
        IN  /\ q.tag = "quote" =>
                  /\ p.previousClose.t = "num" => q.change = q.price - p.previousClose.v
                  /\ p.previousClose = Missing => q.change = 0
                  /\ q.pct_den # 0
                  /\ p.previousClose \in {Missing, Num(0)} => q.pct_num = 0
                  /\ (p.previousClose.t = "num" /\ p.previousClose.v # 0) =>
                        /\ q.pct_num = q.change * 100
                        /\ q.pct_den = p.previousClose.v
            /\ (LookupSucceeds(p) /\ p.previousClose \in {Missing, Num(0)}) =>
                  q.tag = "quote"

\* C16 witness: a payload with a price and a previous close of 0: the quote
\* is returned, with the price for its change and 0 for its percentage
C16_Witness ==
    /\ call.done
    /\ call.info.kind = "dict"
    /\ call.info.currentPrice = Num(3)
    /\ call.info.previousClose = Num(0)
    /\ call.quote.tag = "quote"
    /\ call.quote.change = 3 /\ call.quote.pct_num = 0

\* a is b with some of its elements left out
RECURSIVE IsSubsequence(_, _)
IsSubsequence(a, b) ==
    IF a = <<>> THEN TRUE
    ELSE IF b = <<>> THEN FALSE
    ELSE IF Head(a) = Head(b) THEN IsSubsequence(Tail(a), Tail(b))
    ELSE IsSubsequence(a, Tail(b))

\* the upstream list as news items, titled or not, in upstream order
UpstreamItems(up) ==
    IF up.kind = "list" THEN [i \in DOMAIN up.items |-> [title |-> ItemTitle(up.items[i])]]
    ELSE <<>>

\* C17: get_stock_news lets no failure out: when the lookup raises, or an
\* item is not of the expected shape, it returns the empty sequence; what it
\* returns is never longer than `limit` and is the upstream list with items
\* left out, in upstream order.
C17_NewsAbsorbsFailures ==
    call.done =>
        /\ call.news.kind = "raise" => call.items = <<>>
        /\ (call.news.kind = "list" /\ ~WellFormed(Take(call.news.items, call.limit))) =>
              call.items = <<>>
        /\ Len(call.items) <= call.limit
        /\ IsSubsequence(call.items, UpstreamItems(call.news))

\* C17 witness: an upstream list longer than `limit` whose first `limit`
\* items are titled, not all alike: `limit` items come back
C17_Witness ==
    /\ call.done /\ call.news.kind = "list"
    /\ Len(call.news.items) > call.limit
    /\ Len(call.items) = call.limit
    /\ \E i, j \in DOMAIN call.items : call.items[i] # call.items[j]

\* C18: without an access token, main halts before it registers a handler
\* and before it makes or starts the scheduler; from then on no handler runs
\* and the daily trigger never fires.
C18_NoTokenNoStart ==
    BOT_TOKEN = Placeholder =>
        /\ app.pc \in {"boot", "halted"}
        /\ app.handlers = {} /\ app.scheduler = "none"
        /\ h = IdleH /\ job = IdleJob
        /\ app.pc = "halted" => ~ENABLED Next

\* C18 witness: main has halted on the placeholder token, with rows in the
\* table and a recipient configured
C18_Witness ==
    /\ BOT_TOKEN = Placeholder /\ app.pc = "halted"
    /\ CHAT_ID # "" /\ table # {}

\* get_stock_news returned items for the symbol of e
HadNews(e) == e.n > 0

\* the news messages among the messages and awaited steps of the run r
NewsMessages(r) == {k \in DOMAIN r.sent : r.sent[k].type = "news"}

\* C19: report_command over a watchlist that is not empty sends the one
\* quotes message before any news message, then one news message for each
\* symbol that has news, in watchlist order, and sleeps after each news
\* message: no two news messages follow each other without a sleep.
C19_ReportOrderAndPacing ==
    (h.kind = "report" /\ h.wl # <<>>) =>
        LET with == SelectSeq(h.news, HadNews)
            n == Cardinality(NewsMessages(h))
        IN  /\ \A k \in DOMAIN h.sent :
                  h.sent[k].type = IF k = 1 THEN "loading"
                                   ELSE IF k = 2 THEN "quotes"
                                   ELSE IF k % 2 = 1 THEN "news" ELSE "sleep"
            /\ Len(h.news) <= Len(h.wl)
            /\ \A k \in DOMAIN h.news : h.news[k].ticker = h.wl[k].ticker
            /\ n <= Len(with)
            /\ \A m \in 1 .. n :
                  /\ h.sent[2 * m + 1].blocks[1].symbol = with[m].ticker
                  /\ Len(h.sent[2 * m + 1].titles) = with[m].n
            /\ h.pc = "done" =>
                  /\ Len(h.news) = Len(h.wl)
                  /\ n = Len(with)
                  /\ Len(h.sent) = 2 + 2 * n

\* C19 witness: a report over two symbols, the first without news and the
\* second with news: loading, quotes, the news of the second, the sleep
C19_Witness ==
    /\ h.kind = "report" /\ h.pc = "done" /\ Len(h.wl) = 2
    /\ ~HadNews(h.news[1]) /\ HadNews(h.news[2])
    /\ Len(h.sent) = 4
    /\ h.sent[3].blocks[1].symbol = h.wl[2].ticker
    /\ h.sent[4].type = "sleep"

\* C19 witness of the pacing: two news messages, and a sleep between them
C19_WitnessTwoNews ==
    /\ h.kind = "report" /\ h.pc = "done"
    /\ Len(h.sent) = 6
    /\ h.sent[3].type = "news" /\ h.sent[4].type = "sleep" /\ h.sent[5].type = "news"

\* C20: a run of the daily job sends the quotes message first and the
\* general-news message after it: the news message never goes out without
\* the quotes message of the same run before it, and a run sends each of
\* them at most once.
C20_QuotesThenNews ==
    /\ Len(job.sent) <= 2
    /\ \A k \in DOMAIN job.sent :
          job.sent[k].type = IF k = 1 THEN "quotes" ELSE "headlines"
    /\ job.sent # <<>> => CHAT_ID # ""
    /\ job.pc = "news" => Len(job.sent) = 1

\* C20 witness: a run has sent both messages and is over
C20_Witness ==
    /\ job.pc = "end" /\ job.outcome = "done"
    /\ Len(job.sent) = 2
    /\ job.sent[1].type = "quotes" /\ job.sent[2].type = "headlines"

\* the step is the stretch of add_command, or of an add_ button, that looks
\* the quotes up and writes to the table
AddStretch ==
    \/ h.pc = "idle" /\ h'.kind = "add" /\ h'.args # <<>>
    \/ /\ h.kind = "button" /\ h.pc = "button_1" /\ InCall(h) /\ ~InCall(h')
       /\ StartsWith(h.data, AddPrefix)

\* C21: a row is inserted or replaced only for a symbol whose quote lookup
\* in the same run returned a quote: a symbol whose lookup returned none
\* leaves the table as it was, and add_command decides each of its
\* arguments on its own, so a symbol that fails does not keep a later one
\* from being added.
C21_AddOnlyWithQuote ==
    [][AddStretch =>
          LET r == h'
              added == {r.results[k].ticker : k \in {j \in DOMAIN r.results : r.results[j].ok}}
          IN  /\ IF r.kind = "add"
                 THEN /\ Len(r.results) = Len(r.args) /\ Len(r.ups) = Len(r.args)
                      /\ \A k \in DOMAIN r.args :
                            /\ r.results[k].arg = r.args[k]
                            /\ r.results[k].ok <=> LookupSucceeds(r.ups[k])
                 ELSE /\ Len(r.ups) = 1
                      /\ r.results # <<>> <=> LookupSucceeds(r.ups[1])
                      /\ \A k \in DOMAIN r.results : r.results[k].ok
              /\ \A k \in DOMAIN r.results :
                    IF r.results[k].ok
                    THEN Entries(r.results[k].after, r.chat, r.results[k].ticker) # {}
                    ELSE r.results[k].after = r.results[k].before
              /\ \A row \in table \cup table' :
                    (row.chat_id # r.chat \/ row.ticker \notin added) =>
                        (row \in table /\ row \in table')
              /\ \A t \in added : Cardinality(Entries(table', r.chat, t)) = 1
      ]_vars

\* C21 witness: add_command with two symbols: the lookup of the first fails
\* and it is not added, the second is added after it
C21_Witness ==
    /\ h.kind = "add" /\ Len(h.results) = 2
    /\ h.results[1].ticker # h.results[2].ticker
    /\ ~h.results[1].ok /\ h.results[2].ok
    /\ Entries(table, h.chat, h.results[1].ticker) = {}
    /\ Entries(h.results[2].before, h.chat, h.results[2].ticker) = {}
    /\ Entries(table, h.chat, h.results[2].ticker) # {}

\* C21 witness of the button: an add_ button whose lookup returned no quote
\* has left the table without the symbol
C21_WitnessButton ==
    /\ h.kind = "button" /\ StartsWith(h.data, AddPrefix) /\ h.pc = "done"
    /\ h.ups # <<>> /\ ~LookupSucceeds(h.ups[1])
    /\ h.results = <<>>
    /\ Entries(table, h.chat, h.ticker) = {}

\* the rows of tab that belong to owner
RowsOf(tab, owner) == {r \in tab : r.chat_id = owner}

\* list(owner) over tab holds the rows of owner, each once and no other,
\* sorted by symbol
ListsOwnSorted(tab, owner) ==
    LET wl == get_watchlist(tab, owner)
    IN  /\ Len(wl) = Cardinality(RowsOf(tab, owner))
        /\ \A i \in DOMAIN wl :
              \E r \in RowsOf(tab, owner) :
                  r.ticker = wl[i].ticker /\ r.name = wl[i].name /\ r.added = wl[i].added
        /\ \A i \in DOMAIN wl, j \in DOMAIN wl :
              i < j => StrLess(wl[i].ticker, wl[j].ticker)

\* C22: the watchlists are kept apart by owner: an add or a remove for one
\* owner leaves the rows of every other owner as they were, and list(u)
\* holds the rows of u alone, sorted by symbol.
C22_OwnersPartitioned ==
    [][\A c \in Chats :
          /\ c # h'.chat => RowsOf(table', c) = RowsOf(table, c)
          /\ ListsOwnSorted(table, c) /\ ListsOwnSorted(table', c)
      ]_vars

\* C22 witness: the first owner has added a symbol that the second owner
\* holds too, under another name: each owner has its own row for it, and the
\* first owner's list holds its two rows
C22_Witness ==
    /\ h.kind = "add" /\ h.chat = "u1" /\ Len(h.results) = 1 /\ h.results[1].ok
    /\ h.results[1].ticker = <<"B">>
    /\ Entries(h.results[1].before, "u1", <<"B">>) = {}
    /\ Entries(table, "u2", <<"B">>) # {} /\ Entries(table, "u2", <<"A">>) # {}
    /\ Entries(table, "u1", <<"A">>) # {}
    /\ Len(get_watchlist(table, "u1")) = 2
    /\ \A r \in Entries(table, "u1", <<"B">>), q \in Entries(table, "u2", <<"B">>) :
          r.name # q.name

====
